---- MODULE Spec2Model ----
(***************************************************************************)
(* A model of src/app.py: a LINE webhook that answers text messages with   *)
(* Gemini, augmented by a small SQLite knowledge base (RAG).               *)
(*                                                                         *)
(* Text is a sequence of one-character strings.  Floating-point values of  *)
(* cosine_distance are fixed-point numbers in thousandths (One = 1.0); the *)
(* vectors the embedding stub may return all have an integral magnitude,   *)
(* so that every quotient computed here is exact, as it is in IEEE         *)
(* arithmetic for the same vectors.                                        *)
(***************************************************************************)
EXTENDS Integers, Sequences, FiniteSets, TLC

VARIABLES
    client,     \* TRUE iff genai.Client() was constructed (app.py:51-55)
    db,         \* the file knowledge_base.db
    pc,         \* per worker: position inside callback() / reset_db()
    req,        \* per worker: the request being served
    idx,        \* per worker: loop index of initialize_knowledge_base
    conn,       \* per worker: generation of the file its open connection is on
    pending,    \* per worker: rows INSERTed but not yet committed
    calls,      \* per worker: embedding calls made by initialize_knowledge_base in this request
    seeded,     \* per worker: rows committed by initialize_knowledge_base in this request
    out,        \* per worker: what the request produced (valid when pc = "done")
    idHigh,     \* largest id any INSERT has ever been given (history)
    lastAdd,    \* TRUE iff the last statement that touched the table was a successful add_new_knowledge
    resets      \* number of /resetdb requests started

vars == <<client, db, pc, req, idx, conn, pending, calls, seeded, out, idHigh, lastAdd, resets>>

----------------------------------------------------------------------------
(* Bounds of the model *)

NumWorkers == 2     \* request-handling threads
NumSeeds == 2       \* how many entries of initial_knowledge_data are modelled
MaxRows == 3        \* add commands are delivered only while the table is shorter
MaxResets == 1      \* /resetdb requests per behaviour

Workers == 1..NumWorkers

----------------------------------------------------------------------------
(* Program constants *)

One == 1000                         \* the float 1.0, in thousandths
RAG_CONFIDENCE_THRESHOLD == 500     \* 0.5
TOP_K == 5
max_retries == 3
InitialDelay == 2
MAX_ANSWER == 2000

\* "/新增知識:" - the four CJK characters are written in pinyin, one element each
ADD_COMMAND == <<"/", "xin", "zeng", "zhi", "shi", ":">>

SeedChars == <<"p", "q", "r", "t", "u", "v">>
initial_knowledge_data == [i \in 1..NumSeeds |-> <<SeedChars[((i - 1) % 6) + 1]>>]

----------------------------------------------------------------------------
(* Python string helpers *)

Whitespace == {" ", "\t", "\n"}

startswith(s, prefix) ==
    /\ Len(s) >= Len(prefix)
    /\ SubSeq(s, 1, Len(prefix)) = prefix

RECURSIVE lstrip(_)
lstrip(s) == IF s # <<>> /\ Head(s) \in Whitespace THEN lstrip(Tail(s)) ELSE s

RECURSIVE rstrip(_)
rstrip(s) ==
    IF s # <<>> /\ s[Len(s)] \in Whitespace THEN rstrip(SubSeq(s, 1, Len(s) - 1)) ELSE s

strip(s) == rstrip(lstrip(s))

\* "\n".join(list)
RECURSIVE join(_)
join(list) ==
    IF list = <<>> THEN <<>>
    ELSE IF Len(list) = 1 THEN list[1]
    ELSE list[1] \o <<"\n">> \o join(Tail(list))

----------------------------------------------------------------------------
(* json.dumps / json.loads of a list of numbers: the text is the sequence  *)
(* of its tokens, numbers kept as numbers.                                 *)

RECURSIVE dumpsItems(_)
dumpsItems(v) ==
    IF v = <<>> THEN <<>>
    ELSE IF Len(v) = 1 THEN <<v[1]>>
    ELSE <<v[1], ",">> \o dumpsItems(Tail(v))

json_dumps(v) == <<"[">> \o dumpsItems(v) \o <<"]">>

json_loads(text) == [i \in 1..((Len(text) - 1) \div 2) |-> text[2 * i]]

----------------------------------------------------------------------------
(* cosine_distance *)

Min(a, b) == IF a < b THEN a ELSE b

RECURSIVE sumTo(_, _)
sumTo(f, n) == IF n = 0 THEN 0 ELSE f[n] + sumTo(f, n - 1)

\* sum(v1 * v2 for v1, v2 in zip(vec1, vec2)): zip stops at the shorter vector
zipDot(vec1, vec2) ==
    LET n == Min(Len(vec1), Len(vec2))
    IN  sumTo([i \in 1..n |-> vec1[i] * vec2[i]], n)

sumSquares(v) == sumTo([i \in 1..Len(v) |-> v[i] * v[i]], Len(v))

\* math.sqrt, in thousandths, rounded down: the largest r in lo..hi with r * r <= n
RECURSIVE sqrtBetween(_, _, _)
sqrtBetween(n, lo, hi) ==
    IF lo >= hi THEN lo
    ELSE LET mid == (lo + hi + 1) \div 2
         IN  IF mid * mid <= n THEN sqrtBetween(n, mid, hi) ELSE sqrtBetween(n, lo, mid - 1)

sqrtMilli(n) == sqrtBetween(n * One * One, 0, (n + 1) * One)

cosine_distance(vec1, vec2) ==
    LET dot_product == zipDot(vec1, vec2)
        magnitude_v1 == sqrtMilli(sumSquares(vec1))
        magnitude_v2 == sqrtMilli(sumSquares(vec2))
    IN  IF magnitude_v1 = 0 \/ magnitude_v2 = 0
        THEN One
        ELSE LET cosine_similarity ==
                     (dot_product * One * One) \div ((magnitude_v1 * magnitude_v2) \div One)
             IN  One - cosine_similarity

----------------------------------------------------------------------------
(* The remote services, as stubs whose answer is chosen by the environment *)

\* vectors the embedding service may return: two dimensionalities, one pair at
\* cosine distance exactly 0.5, and the zero vector
Vectors == { <<2, 0, 0, 0>>, <<1, 1, 1, 1>>, <<2, 0>>, <<0, 0>> }

None == [ok |-> FALSE, values |-> <<>>]

\* what client.models.embed_content does: a vector, or an exception
EmbedOutcomes == {[ok |-> TRUE, values |-> v] : v \in Vectors} \cup {None}

\* get_embedding: None without a client and on any exception
get_embedding(svc) == IF ~client THEN None ELSE svc

\* Python truthiness of an embedding (None and [] are falsy)
truthy(embedding) == embedding.ok /\ embedding.values # <<>>

----------------------------------------------------------------------------
(* The SQLite file *)

NoDb == [exists |-> FALSE, gen |-> 0, table |-> FALSE, rows |-> <<>>, lock |-> 0]

\* sqlite3.connect creates the file when it is missing
get_db_connection(d) == IF d.exists THEN d ELSE [d EXCEPT !.exists = TRUE]

\* CREATE TABLE IF NOT EXISTS, commit
setup_db(d) == [get_db_connection(d) EXCEPT !.table = TRUE]

RECURSIVE maxId(_)
maxId(rows) ==
    IF rows = <<>> THEN 0
    ELSE LET m == maxId(Tail(rows)) IN IF Head(rows).id > m THEN Head(rows).id ELSE m

\* INTEGER PRIMARY KEY without AUTOINCREMENT: one more than the largest rowid in the table
nextRowId(rows) == maxId(rows) + 1

newRow(rows, content, embedding) ==
    [id |-> nextRowId(rows), content |-> content, embedding_json |-> json_dumps(embedding.values)]

\* os.remove(DB_FILE): later connections see a new, empty file
removeFile(d) == [exists |-> FALSE, gen |-> d.gen + 1, table |-> FALSE, rows |-> <<>>, lock |-> 0]

----------------------------------------------------------------------------
(* query_knowledge_base *)

RECURSIVE scoreRows(_, _)
scoreRows(query_embedding, rows) ==
    IF rows = <<>> THEN <<>>
    ELSE LET row == Head(rows)
             rest == scoreRows(query_embedding, Tail(rows))
         IN  IF row.embedding_json # <<>>
             THEN <<[distance |-> cosine_distance(query_embedding, json_loads(row.embedding_json)),
                     content |-> row.content]>> \o rest
             ELSE rest

\* a sort that is not stable: an element goes before its equals
RECURSIVE insertSorted_unstable(_, _)
insertSorted_unstable(sorted, x) ==
    IF sorted = <<>> THEN <<x>>
    ELSE IF Head(sorted).distance < x.distance
         THEN <<Head(sorted)>> \o insertSorted_unstable(Tail(sorted), x)
         ELSE <<x>> \o sorted

\* list.sort(key=distance) is stable: an element goes behind every element that is not larger
RECURSIVE insertSorted(_, _)
insertSorted(sorted, x) ==
    IF sorted = <<>> THEN <<x>>
    ELSE IF Head(sorted).distance <= x.distance
         THEN <<Head(sorted)>> \o insertSorted(Tail(sorted), x)
         ELSE <<x>> \o sorted

RECURSIVE sortByDistance(_)
sortByDistance(results) ==
    IF results = <<>> THEN <<>>
    ELSE insertSorted(sortByDistance(SubSeq(results, 1, Len(results) - 1)), results[Len(results)])

\* the threshold compared with <= instead of <
is_high_confidence_le(results) ==
    results # <<>> /\ results[1].distance <= RAG_CONFIDENCE_THRESHOLD

is_high_confidence(results) ==
    results # <<>> /\ results[1].distance < RAG_CONFIDENCE_THRESHOLD

\* the retrieval without its guard on the query embedding
query_knowledge_base_unguarded(query_embedding, d, top_k) ==
    IF ~d.table
    THEN [context |-> <<>>, high |-> FALSE, results |-> <<>>, fail |-> "read"]
    ELSE LET results == sortByDistance(scoreRows(query_embedding.values, d.rows))
             top == SubSeq(results, 1, Min(top_k, Len(results)))
         IN  [context |-> join([i \in 1..Len(top) |-> top[i].content]),
              high |-> is_high_confidence(results),
              results |-> results,
              fail |-> "none"]

\* d is the file as the connection opened by the function finds it
query_knowledge_base(query_embedding, d, top_k) ==
    IF ~truthy(query_embedding)
    THEN [context |-> <<>>, high |-> FALSE, results |-> <<>>, fail |-> "embedding"]
    ELSE IF ~d.table
    THEN [context |-> <<>>, high |-> FALSE, results |-> <<>>, fail |-> "read"]
    ELSE LET results == sortByDistance(scoreRows(query_embedding.values, d.rows))
             top == SubSeq(results, 1, Min(top_k, Len(results)))
         IN  [context |-> join([i \in 1..Len(top) |-> top[i].content]),
              high |-> is_high_confidence(results),
              results |-> results,
              fail |-> "none"]

----------------------------------------------------------------------------
(* Texts sent with reply_message: a template and the value formatted into it *)

Reply(tmpl, arg) == [tmpl |-> tmpl, arg |-> arg, src |-> 0, n |-> 0, cut |-> FALSE]

NoReply == Reply("none", <<>>)

\* GEMINI_response, lines 240-270: tools_config and system_instruction
tools_config(rag_context, high) ==
    IF rag_context # <<>>
    THEN IF high THEN {} ELSE {"google_search"}
    ELSE {"google_search"}

system_instruction(rag_context, high) ==
    IF rag_context # <<>>
    THEN IF high THEN "strict" ELSE "blend"
    ELSE "generic"

\* what client.models.generate_content does on one attempt
AnswerLens == {MAX_ANSWER, MAX_ANSWER + 1}
FinishReasons == {"SAFETY"}

GenOutcomes ==
    {[kind |-> "text", n |-> k, reason |-> ""] : k \in AnswerLens}
    \cup {[kind |-> "empty", n |-> 0, reason |-> r] : r \in FinishReasons \cup {""}}
    \cup {[kind |-> "APIError", n |-> 0, reason |-> ""], [kind |-> "Exception", n |-> 0, reason |-> ""]}

\* lines 304-310: strip, then cut to 2000 characters plus the marker
answerReply(o, attempt) ==
    [tmpl |-> "answer", arg |-> <<>>, src |-> attempt,
     n |-> Min(o.n, MAX_ANSWER), cut |-> o.n > MAX_ANSWER]

\* the retry loop with a delay that is never doubled
generate_attempt_nodouble(attempt, delay, sleeps, o) ==
    LET return(reply) ==
            [returned |-> TRUE, reply |-> reply, delay |-> delay, sleeps |-> sleeps]
    IN  CASE o.kind = "text" -> return(answerReply(o, attempt + 1))
          [] o.kind = "empty" ->
                return(Reply("gen_empty", IF o.reason = "" THEN <<>> ELSE <<o.reason>>))
          [] o.kind = "APIError" ->
                IF attempt < max_retries - 1
                THEN [returned |-> FALSE, reply |-> NoReply, delay |-> delay,
                      sleeps |-> Append(sleeps, delay)]
                ELSE return(Reply("busy", <<>>))
          [] OTHER -> return(Reply("unknown", <<>>))

\* lines 276-323: one turn of the retry loop; attempt counts from 0 as in the
\* code, o is what generate_content does on this attempt
generate_attempt(attempt, delay, sleeps, o) ==
    LET return(reply) ==
            [returned |-> TRUE, reply |-> reply, delay |-> delay, sleeps |-> sleeps]
    IN  CASE o.kind = "text" -> return(answerReply(o, attempt + 1))
          [] o.kind = "empty" ->
                return(Reply("gen_empty", IF o.reason = "" THEN <<>> ELSE <<o.reason>>))
          [] o.kind = "APIError" ->
                IF attempt < max_retries - 1
                THEN [returned |-> FALSE, reply |-> NoReply, delay |-> delay * 2,
                      sleeps |-> Append(sleeps, delay)]
                ELSE return(Reply("busy", <<>>))
          [] OTHER -> return(Reply("unknown", <<>>))

----------------------------------------------------------------------------
(* add_new_knowledge *)

\* an add that overwrites the row holding the same content, if there is one
add_new_knowledge_upsert(content, svc, d) ==
    IF ~client
    THEN [success |-> FALSE, message |-> Reply("add_fail_client", <<>>), db |-> d,
          embedded |-> 0, row |-> <<>>]
    ELSE LET embedding == get_embedding(svc) IN
         IF ~truthy(embedding)
         THEN [success |-> FALSE, message |-> Reply("add_fail_embedding", <<>>), db |-> d,
               embedded |-> 1, row |-> <<>>]
         ELSE LET c == get_db_connection(d) IN
              IF ~c.table
              THEN [success |-> FALSE, message |-> Reply("add_fail_db", <<"no such table">>),
                    db |-> c, embedded |-> 1, row |-> <<>>]
              ELSE IF c.lock # 0
              THEN [success |-> FALSE, message |-> Reply("add_fail_db", <<"database is locked">>),
                    db |-> c, embedded |-> 1, row |-> <<>>]
              ELSE LET row == newRow(c.rows, content, embedding)
                       same == {i \in DOMAIN c.rows : c.rows[i].content = content}
                   IN  [success |-> TRUE, message |-> Reply("add_ok", content),
                        db |-> [c EXCEPT !.rows =
                                   IF same = {} THEN Append(c.rows, row)
                                   ELSE [i \in DOMAIN c.rows |->
                                           IF i \in same
                                           THEN [c.rows[i] EXCEPT !.embedding_json = row.embedding_json]
                                           ELSE c.rows[i]]],
                        embedded |-> 1, row |-> <<row>>]

\* d is the file before the call, svc what the embedding service answers
add_new_knowledge(content, svc, d) ==
    IF ~client
    THEN [success |-> FALSE, message |-> Reply("add_fail_client", <<>>), db |-> d,
          embedded |-> 0, row |-> <<>>]
    ELSE LET embedding == get_embedding(svc) IN
         IF ~truthy(embedding)
         THEN [success |-> FALSE, message |-> Reply("add_fail_embedding", <<>>), db |-> d,
               embedded |-> 1, row |-> <<>>]
         ELSE LET c == get_db_connection(d) IN
              IF ~c.table
              THEN [success |-> FALSE, message |-> Reply("add_fail_db", <<"no such table">>),
                    db |-> c, embedded |-> 1, row |-> <<>>]
              ELSE IF c.lock # 0
              THEN [success |-> FALSE, message |-> Reply("add_fail_db", <<"database is locked">>),
                    db |-> c, embedded |-> 1, row |-> <<>>]
              ELSE LET row == newRow(c.rows, content, embedding)
                   IN  [success |-> TRUE, message |-> Reply("add_ok", content),
                        db |-> [c EXCEPT !.rows = Append(c.rows, row)],
                        embedded |-> 1, row |-> <<row>>]

----------------------------------------------------------------------------
(* Requests *)

\* inbound text messages: the bare command, the command with blanks only, a
\* well-formed command, a question, and a text that only resembles the command
Messages ==
    { ADD_COMMAND,
      ADD_COMMAND \o <<" ", "\t">>,
      ADD_COMMAND \o <<" ", "a", " ">>,
      <<"a">>,
      <<" ">> \o ADD_COMMAND \o <<"a">> }

\* what the environment may do: the texts users send and the answers of the
\* two remote services
FullEnv ==
    [messages |-> Messages, sigs |-> BOOLEAN, embeds |-> EmbedOutcomes, gens |-> GenOutcomes]

NoReq == [kind |-> "none", msg |-> <<>>, sig |-> TRUE]

NoOut ==
    [status |-> "none", route |-> "none", reply |-> NoReply, embedCalls |-> 0,
     attempts |-> 0, delay |-> 0, sleeps |-> <<>>, log |-> <<>>,
     tools |-> {}, instruction |-> "none",
     seen |-> [table |-> FALSE, nrows |-> 0],
     afterAdd |-> FALSE,
     fail |-> "none", qemb |-> None, results |-> <<>>, context |-> <<>>, high |-> FALSE]

Init ==
    /\ client \in BOOLEAN
    /\ db = NoDb
    /\ pc = [p \in Workers |-> "idle"]
    /\ req = [p \in Workers |-> NoReq]
    /\ idx = [p \in Workers |-> 0]
    /\ conn = [p \in Workers |-> 0]
    /\ pending = [p \in Workers |-> <<>>]
    /\ calls = [p \in Workers |-> 0]
    /\ seeded = [p \in Workers |-> 0]
    /\ out = [p \in Workers |-> NoOut]
    /\ idHigh = 0
    /\ lastAdd = FALSE
    /\ resets = 0

\* POST /callback arrives with a text message event; with a bad signature the
\* body is never looked at
Start(p, env) ==
    /\ pc[p] = "idle"
    /\ \E msg \in env.messages, sig \in env.sigs :
          /\ startswith(msg, ADD_COMMAND) => Len(db.rows) < MaxRows
          /\ ~sig => msg = <<"a">>
          /\ req' = [req EXCEPT ![p] = [kind |-> "callback", msg |-> msg, sig |-> sig]]
    /\ pc' = [pc EXCEPT ![p] = "setup"]
    /\ UNCHANGED <<client, db, idx, conn, pending, calls, seeded, out, idHigh, lastAdd, resets>>

\* GET /resetdb, lines 346-349: the file is removed if it exists
StartReset(p) ==
    /\ pc[p] = "idle"
    /\ resets < MaxResets
    /\ resets' = resets + 1
    /\ req' = [req EXCEPT ![p] = [kind |-> "resetdb", msg |-> <<>>, sig |-> TRUE]]
    /\ db' = IF db.exists THEN removeFile(db) ELSE db
    /\ lastAdd' = IF db.exists THEN FALSE ELSE lastAdd
    /\ pc' = [pc EXCEPT ![p] = "setup"]
    /\ UNCHANGED <<client, idx, conn, pending, calls, seeded, out, idHigh>>

\* setup_db()
SetupDb(p) ==
    /\ pc[p] = "setup"
    /\ db' = setup_db(db)
    /\ pc' = [pc EXCEPT ![p] = "init"]
    /\ UNCHANGED <<client, req, idx, conn, pending, calls, seeded, out, idHigh, lastAdd, resets>>

\* where a request goes once initialize_knowledge_base has returned
afterInit(p) == IF req[p].kind = "resetdb" THEN "done" ELSE "dispatch"

outAfterInit(p) ==
    IF req[p].kind = "resetdb" THEN [NoOut EXCEPT !.status = "reset_ok"] ELSE NoOut

\* an exception leaves initialize_knowledge_base: callback answers 500 and no
\* handler runs; reset_db catches it. The open transaction is rolled back.
raised(p, d) ==
    /\ db' = IF conn[p] = d.gen /\ d.lock = p THEN [d EXCEPT !.lock = 0] ELSE d
    /\ pending' = [pending EXCEPT ![p] = <<>>]
    /\ out' = [out EXCEPT ![p] =
                 [NoOut EXCEPT !.status = IF req[p].kind = "resetdb" THEN "reset_fail" ELSE "500"]]
    /\ pc' = [pc EXCEPT ![p] = "done"]

\* initialize_knowledge_base(), lines 116-124: the client check and SELECT COUNT(*)
InitCount(p) ==
    /\ pc[p] = "init"
    /\ IF ~client
       THEN /\ pc' = [pc EXCEPT ![p] = afterInit(p)]
            /\ out' = [out EXCEPT ![p] = outAfterInit(p)]
            /\ UNCHANGED <<db, idx, conn, pending>>
       ELSE LET d == get_db_connection(db) IN
            IF ~d.table
            THEN /\ raised(p, d)
                 /\ UNCHANGED <<idx, conn>>
            ELSE IF Len(d.rows) = 0
            THEN /\ pc' = [pc EXCEPT ![p] = "seed"]
                 /\ idx' = [idx EXCEPT ![p] = 1]
                 /\ conn' = [conn EXCEPT ![p] = d.gen]
                 /\ db' = d
                 /\ UNCHANGED <<pending, out>>
            ELSE /\ pc' = [pc EXCEPT ![p] = afterInit(p)]
                 /\ out' = [out EXCEPT ![p] = outAfterInit(p)]
                 /\ db' = d
                 /\ UNCHANGED <<idx, conn, pending>>
    /\ UNCHANGED <<client, req, calls, seeded, idHigh, lastAdd, resets>>

\* lines 126-137: one turn of the loop over initial_knowledge_data. A connection
\* on a removed file writes to the orphaned file, which nobody reads again.
SeedStep(p, env) ==
    /\ pc[p] = "seed"
    /\ idx[p] <= NumSeeds
    /\ calls' = [calls EXCEPT ![p] = @ + 1]
    /\ \E svc \in env.embeds :
          LET embedding == get_embedding(svc) IN
          IF ~truthy(embedding) \/ conn[p] # db.gen
          THEN /\ idx' = [idx EXCEPT ![p] = @ + 1]
               /\ UNCHANGED <<db, pending, out, pc, idHigh>>
          ELSE IF db.lock \in {0, p}
          THEN LET row == newRow(db.rows \o pending[p], initial_knowledge_data[idx[p]], embedding)
               IN  /\ pending' = [pending EXCEPT ![p] = Append(@, row)]
                   /\ db' = [db EXCEPT !.lock = p]
                   /\ idHigh' = IF row.id > idHigh THEN row.id ELSE idHigh
                   /\ idx' = [idx EXCEPT ![p] = @ + 1]
                   /\ UNCHANGED <<out, pc>>
          ELSE /\ raised(p, db)
               /\ UNCHANGED <<idx, idHigh>>
    /\ UNCHANGED <<client, req, conn, seeded, lastAdd, resets>>

\* lines 138-141: conn.commit(), conn.close()
SeedCommit(p) ==
    /\ pc[p] = "seed"
    /\ idx[p] > NumSeeds
    /\ IF conn[p] = db.gen /\ pending[p] # <<>>
       THEN /\ db' = [db EXCEPT !.rows = @ \o pending[p], !.lock = 0]
            /\ seeded' = [seeded EXCEPT ![p] = Len(pending[p])]
            /\ lastAdd' = FALSE
       ELSE UNCHANGED <<db, seeded, lastAdd>>
    /\ pending' = [pending EXCEPT ![p] = <<>>]
    /\ pc' = [pc EXCEPT ![p] = afterInit(p)]
    /\ out' = [out EXCEPT ![p] = outAfterInit(p)]
    /\ UNCHANGED <<client, req, idx, conn, calls, idHigh, resets>>

----------------------------------------------------------------------------
(* callback(), lines 332-340, and handle_text_message *)

\* handler.handle raises InvalidSignatureError: abort(400), no handler runs
DispatchBadSignature(p) ==
    /\ pc[p] = "dispatch"
    /\ ~req[p].sig
    /\ out' = [out EXCEPT ![p] = [NoOut EXCEPT !.status = "400"]]
    /\ pc' = [pc EXCEPT ![p] = "done"]
    /\ UNCHANGED <<client, db, req, idx, conn, pending, calls, seeded, idHigh, lastAdd, resets>>

\* the content taken without .strip()
knowledge_content_nostrip(user_msg) == SubSeq(user_msg, Len(ADD_COMMAND) + 1, Len(user_msg))

\* user_msg.startswith(ADD_COMMAND)
is_add_command(user_msg) == startswith(user_msg, ADD_COMMAND)

\* user_msg[len(ADD_COMMAND):].strip()
knowledge_content(user_msg) == strip(SubSeq(user_msg, Len(ADD_COMMAND) + 1, Len(user_msg)))

\* lines 366-380, the command without content: the usage message
DispatchUsage(p) ==
    /\ pc[p] = "dispatch"
    /\ req[p].sig
    /\ is_add_command(req[p].msg)
    /\ knowledge_content(req[p].msg) = <<>>
    /\ out' = [out EXCEPT ![p] =
                 [NoOut EXCEPT !.status = "OK", !.route = "usage",
                               !.reply = Reply("usage", ADD_COMMAND)]]
    /\ pc' = [pc EXCEPT ![p] = "done"]
    /\ UNCHANGED <<client, db, req, idx, conn, pending, calls, seeded, idHigh, lastAdd, resets>>

\* lines 366-377, the command with content: add_new_knowledge and its reply
DispatchAdd(p, env) ==
    /\ pc[p] = "dispatch"
    /\ req[p].sig
    /\ is_add_command(req[p].msg)
    /\ knowledge_content(req[p].msg) # <<>>
    /\ \E svc \in env.embeds :
          LET r == add_new_knowledge(knowledge_content(req[p].msg), svc, db)
          IN  /\ db' = r.db
              /\ out' = [out EXCEPT ![p] =
                           [NoOut EXCEPT !.status = "OK", !.route = "add", !.reply = r.message,
                                         !.embedCalls = r.embedded,
                                         !.qemb = get_embedding(svc)]]
              /\ idHigh' = IF r.success /\ r.row[1].id > idHigh THEN r.row[1].id ELSE idHigh
              /\ lastAdd' = (r.success \/ lastAdd)
    /\ pc' = [pc EXCEPT ![p] = "done"]
    /\ UNCHANGED <<client, req, idx, conn, pending, calls, seeded, resets>>

\* lines 381-384 and GEMINI_response up to line 270: retrieval and the choice
\* of tools_config and system_instruction
DispatchQuery(p, env) ==
    /\ pc[p] = "dispatch"
    /\ req[p].sig
    /\ ~is_add_command(req[p].msg)
    /\ IF ~client
       THEN /\ out' = [out EXCEPT ![p] =
                         [NoOut EXCEPT !.status = "OK", !.route = "gemini",
                                       !.reply = Reply("no_client", <<>>)]]
            /\ pc' = [pc EXCEPT ![p] = "done"]
            /\ UNCHANGED <<db, lastAdd>>
       ELSE \E svc \in env.embeds :
              LET query_embedding == get_embedding(svc)
                  d == IF truthy(query_embedding) THEN get_db_connection(db) ELSE db
                  q == query_knowledge_base(query_embedding, d, TOP_K)
              IN  /\ db' = d
                  /\ out' = [out EXCEPT ![p] =
                               [NoOut EXCEPT !.route = "gemini", !.embedCalls = 1,
                                             !.delay = InitialDelay,
                                             !.qemb = query_embedding,
                                             !.afterAdd = lastAdd,
                                             !.seen = [table |-> d.table, nrows |-> Len(d.rows)],
                                             !.fail = q.fail,
                                             !.results = q.results,
                                             !.context = q.context,
                                             !.high = q.high,
                                             !.tools = tools_config(q.context, q.high),
                                             !.instruction = system_instruction(q.context, q.high)]]
                  /\ pc' = [pc EXCEPT ![p] = "generate"]
                  /\ lastAdd' = FALSE
    /\ UNCHANGED <<client, req, idx, conn, pending, calls, seeded, idHigh, resets>>

\* GEMINI_response, lines 276-323: one attempt of the retry loop; on return the
\* reply is sent with reply_message and the locals of the retrieval are gone
Generate(p, env) ==
    /\ pc[p] = "generate"
    /\ out[p].attempts < max_retries
    /\ \E o \in env.gens :
          LET g == generate_attempt(out[p].attempts, out[p].delay, out[p].sleeps, o)
          IN  IF g.returned
              THEN /\ out' = [out EXCEPT ![p] =
                                [NoOut EXCEPT !.status = "OK", !.route = "gemini", !.embedCalls = 1,
                                              !.reply = g.reply,
                                              !.attempts = out[p].attempts + 1,
                                              !.sleeps = g.sleeps,
                                              !.log = Append(out[p].log, o.kind)]]
                   /\ pc' = [pc EXCEPT ![p] = "done"]
              ELSE /\ out' = [out EXCEPT ![p] =
                                [@ EXCEPT !.attempts = @ + 1, !.delay = g.delay,
                                          !.sleeps = g.sleeps,
                                          !.log = Append(@, o.kind)]]
                   /\ UNCHANGED pc
    /\ UNCHANGED <<client, db, req, idx, conn, pending, calls, seeded, idHigh, lastAdd, resets>>

\* the response is sent; the worker takes the next request
Finish(p) ==
    /\ pc[p] = "done"
    /\ pc' = [pc EXCEPT ![p] = "idle"]
    /\ req' = [req EXCEPT ![p] = NoReq]
    /\ idx' = [idx EXCEPT ![p] = 0]
    /\ conn' = [conn EXCEPT ![p] = 0]
    /\ calls' = [calls EXCEPT ![p] = 0]
    /\ seeded' = [seeded EXCEPT ![p] = 0]
    /\ out' = [out EXCEPT ![p] = NoOut]
    /\ UNCHANGED <<client, db, pending, idHigh, lastAdd, resets>>

Step(p, env) ==
    \/ Start(p, env)
    \/ StartReset(p)
    \/ SetupDb(p)
    \/ InitCount(p)
    \/ SeedStep(p, env)
    \/ SeedCommit(p)
    \/ DispatchBadSignature(p)
    \/ DispatchUsage(p)
    \/ DispatchAdd(p, env)
    \/ DispatchQuery(p, env)
    \/ Generate(p, env)
    \/ Finish(p)

\* requests served one at a time, by worker 1
Next == Step(1, FullEnv)

Spec == Init /\ [][Next]_vars

\* questions served by all workers at once (Flask's threaded server) while
\* /resetdb may be called, in a smaller environment: one question, one vector,
\* one answer
ConcurrentEnv ==
    [messages |-> {<<"a">>},
     sigs |-> {TRUE},
     embeds |-> {[ok |-> TRUE, values |-> <<2, 0>>], None},
     gens |-> {[kind |-> "text", n |-> MAX_ANSWER, reason |-> ""]}]

NextConcurrent ==
    \E p \in Workers :
        \/ Start(p, ConcurrentEnv)
        \/ StartReset(p)
        \/ SetupDb(p)
        \/ InitCount(p)
        \/ SeedStep(p, ConcurrentEnv)
        \/ SeedCommit(p)
        \/ DispatchQuery(p, ConcurrentEnv)
        \/ Generate(p, ConcurrentEnv)
        \/ Finish(p)

SpecConcurrent == Init /\ [][NextConcurrent]_vars

----------------------------------------------------------------------------
(* Properties *)

Last(seq) == seq[Len(seq)]

\* the smallest distance among the scored rows, found without relying on their order
BestDistance(results) ==
    CHOOSE d \in {results[i].distance : i \in DOMAIN results} :
        \A i \in DOMAIN results : d <= results[i].distance

\* the vector stored in a row
rowVector(row) == json_loads(row.embedding_json)

\* C1: while GEMINI_response is about to call the generation service (the
\* client is initialised), Google Search is disabled exactly when the retrieved
\* context is non-empty and the smallest distance is strictly below the
\* threshold; it is enabled when the embedding failed, when the table could not
\* be read, when the table is empty and when the smallest distance equals the
\* threshold.
C1_SearchGate ==
    \A p \in Workers :
        pc[p] = "generate" =>
            LET o == out[p]
                highTier == /\ o.context # <<>>
                            /\ o.results # <<>>
                            /\ BestDistance(o.results) < RAG_CONFIDENCE_THRESHOLD
            IN  /\ client
                /\ o.tools \in {{}, {"google_search"}}
                /\ (o.tools = {}) <=> highTier
                /\ (\/ ~truthy(o.qemb)
                    \/ ~o.seen.table
                    \/ o.seen.nrows = 0
                    \/ (o.results # <<>> /\ BestDistance(o.results) = RAG_CONFIDENCE_THRESHOLD))
                   => o.tools = {"google_search"}

\* a generation call is prepared with Google Search disabled, on a table of
\* several rows
C1_Witness ==
    \E p \in Workers :
        /\ pc[p] = "generate"
        /\ out[p].tools = {}
        /\ Len(out[p].results) >= 2
        /\ out[p].results[2].distance = RAG_CONFIDENCE_THRESHOLD

\* C2: the retry loop makes at most 3 attempts and GEMINI_response always
\* returns a text; after 3 provider errors exactly 3 attempts were made, with
\* waits of 2 then 4 between them and none after the last, and the fallback
\* text is returned; after 2 provider errors and a success the answer of the
\* third attempt is returned after exactly 2 retries.
C2_BoundedRetry ==
    \A p \in Workers :
        LET o == out[p]
            E == "APIError"
        IN  /\ o.attempts <= max_retries
            /\ pc[p] = "generate" => o.attempts < max_retries
            /\ (pc[p] = "done" /\ o.route = "gemini") =>
                  /\ o.reply.tmpl # "none"
                  /\ client => (o.attempts = Len(o.log) /\ o.attempts >= 1)
                  /\ o.log = <<E, E, E>> =>
                        /\ o.attempts = 3
                        /\ o.sleeps = <<2, 4>>
                        /\ o.reply = Reply("busy", <<>>)
                  /\ o.log = <<E, E, "text">> =>
                        /\ o.attempts = 3
                        /\ o.sleeps = <<2, 4>>
                        /\ o.reply.tmpl = "answer"
                        /\ o.reply.src = 3

\* the generation service failed three times and the fallback text was sent
C2_Witness ==
    \E p \in Workers :
        /\ pc[p] = "done"
        /\ out[p].log = <<"APIError", "APIError", "APIError">>
        /\ out[p].reply.tmpl = "busy"

C4_AddAppendsOrNothing ==
    [][\A p \in Workers :
          (pc[p] = "dispatch" /\ pc'[p] = "done" /\ out'[p].route = "add") =>
              LET o == out'[p]
                  content == strip(SubSeq(req[p].msg, Len(ADD_COMMAND) + 1, Len(req[p].msg)))
              IN  /\ o.reply.tmpl \in {"add_ok", "add_fail_client", "add_fail_embedding", "add_fail_db"}
                  /\ (o.reply.tmpl = "add_fail_client") <=> ~client
                  /\ (o.reply.tmpl = "add_fail_embedding") <=> (client /\ ~truthy(o.qemb))
                  /\ o.reply.tmpl # "add_ok" => db'.rows = db.rows
                  /\ o.reply.tmpl = "add_ok" =>
                        /\ Len(db'.rows) = Len(db.rows) + 1
                        /\ SubSeq(db'.rows, 1, Len(db.rows)) = db.rows
                        /\ Last(db'.rows).content = content
                        /\ rowVector(Last(db'.rows)) = o.qemb.values
                        /\ \A i \in DOMAIN db.rows : db.rows[i].id # Last(db'.rows).id
   ]_vars

\* an add succeeded on a table that held rows already
C4_Witness ==
    \E p \in Workers :
        /\ pc[p] = "done"
        /\ out[p].reply.tmpl = "add_ok"
        /\ Len(db.rows) >= 2
        /\ Last(db.rows).content = out[p].reply.arg

\* C5 as stated: a request whose text is the command followed by nothing or by
\* blanks is answered with the usage message without calling add_new_knowledge,
\* without any embedding or generation call during the request and without
\* writing a row; a text that does not start with the command goes to
\* GEMINI_response.
C5_UsageNoRemoteCall ==
    \A p \in Workers :
        (pc[p] = "done" /\ out[p].status = "OK") =>
            LET o == out[p]
                isCommand == startswith(req[p].msg, ADD_COMMAND)
                rest == SubSeq(req[p].msg, Len(ADD_COMMAND) + 1, Len(req[p].msg))
                blank == \A i \in DOMAIN rest : rest[i] \in Whitespace
            IN  /\ (isCommand /\ blank) =>
                      /\ o.route = "usage"
                      /\ o.reply = Reply("usage", ADD_COMMAND)
                      /\ o.embedCalls = 0
                      /\ o.attempts = 0
                      /\ calls[p] = 0
                      /\ seeded[p] = 0
                /\ ~isCommand => o.route = "gemini"

\* C5 as amended: handle_text_message answers such a text with the usage
\* message, calls neither add_new_knowledge nor a remote service and leaves the
\* file as it is; the embedding calls and row writes of the request are those
\* of initialize_knowledge_base, which callback runs first and which embeds
\* and inserts only when it found the table empty with a client present. A text
\* that does not start with the command goes to GEMINI_response, never to
\* add_new_knowledge.
C5_UsageDispatchFrame ==
    [][\A p \in Workers :
          /\ (pc'[p] = "done" /\ out'[p].status = "OK") =>
                LET o == out'[p]
                    isCommand == startswith(req'[p].msg, ADD_COMMAND)
                    rest == SubSeq(req'[p].msg, Len(ADD_COMMAND) + 1, Len(req'[p].msg))
                    blank == \A i \in DOMAIN rest : rest[i] \in Whitespace
                IN  /\ (isCommand /\ blank) =>
                          /\ o.route = "usage"
                          /\ o.reply = Reply("usage", ADD_COMMAND)
                          /\ o.embedCalls = 0
                          /\ o.attempts = 0
                    /\ ~isCommand => o.route = "gemini"
                    /\ (isCommand /\ ~blank) => o.route = "add"
          /\ (pc[p] = "dispatch" /\ out'[p].route = "usage") =>
                (db' = db /\ calls' = calls /\ seeded' = seeded /\ idHigh' = idHigh)
          /\ (calls'[p] > calls[p] \/ seeded'[p] > seeded[p]) => pc[p] = "seed"
          /\ (pc[p] = "init" /\ pc'[p] = "seed") => (client /\ db.rows = <<>>)
   ]_vars

\* the usage message was sent by a request that seeded the empty table first
C5_Witness ==
    \E p \in Workers :
        /\ pc[p] = "done"
        /\ out[p].route = "usage"
        /\ req[p].msg = ADD_COMMAND \o <<" ", "\t">>
        /\ calls[p] = NumSeeds
        /\ seeded[p] > 0
        /\ out[p].embedCalls = 0

\* the retrieval for text c directly after a successful add_new_knowledge(c),
\* the embedding service answering with the same vector both times
queryAfterAddOf(p) ==
    /\ pc[p] = "dispatch"
    /\ pc'[p] = "generate"
    /\ lastAdd
    /\ db.rows # <<>>
    /\ Last(db.rows).content = req[p].msg
    /\ truthy(out'[p].qemb)
    /\ rowVector(Last(db.rows)) = out'[p].qemb.values

\* C6 as stated: such a retrieval returns c as the first entry of the context,
\* whatever the table held before, rows at the same distance included. (Stated
\* for a vector that is not zero, so that c is at distance 0 from the query.)
C6_AddedIsTop ==
    [][\A p \in Workers :
          (queryAfterAddOf(p) /\ sumSquares(out'[p].qemb.values) # 0) =>
              /\ out'[p].results # <<>>
              /\ out'[p].results[1].content = req[p].msg
              /\ startswith(out'[p].context, req[p].msg)
   ]_vars

\* C6 as amended: such a retrieval puts first the earliest stored row among
\* those at the smallest distance from the query; that is c when every earlier
\* row is strictly farther from the query than the row just added, and a row at
\* the same distance that was stored earlier comes before c. The row just
\* added is at distance 0 unless its vector is zero.
C6_EarliestNearestIsTop ==
    [][\A p \in Workers :
          queryAfterAddOf(p) =>
              LET q == out'[p].qemb.values
                  rows == db.rows
                  n == Len(rows)
                  dist(i) == cosine_distance(q, rowVector(rows[i]))
                  first == CHOOSE i \in 1..n :
                              /\ \A j \in 1..n : dist(i) <= dist(j)
                              /\ \A j \in 1..(i - 1) : dist(j) > dist(i)
                  top == out'[p].results[1]
              IN  /\ Len(out'[p].results) = n
                  /\ top.content = rows[first].content
                  /\ top.distance = dist(first)
                  /\ startswith(out'[p].context, rows[first].content)
                  /\ (\A j \in 1..(n - 1) : dist(j) > dist(n)) => top.content = req[p].msg
                  /\ sumSquares(q) # 0 => dist(n) = 0
   ]_vars

\* a retrieval directly after an add found the added text first although an
\* earlier row is stored, and that row is farther away
C6_Witness ==
    \E p \in Workers :
        /\ pc[p] = "generate"
        /\ out[p].afterAdd
        /\ Len(out[p].results) >= 2
        /\ out[p].results[1].content = req[p].msg
        /\ out[p].results[1].distance = 0
        /\ out[p].results[2].distance > 0
        /\ Last(db.rows).content = req[p].msg
        /\ rowVector(Last(db.rows)) = out[p].qemb.values

\* templates of the replies that report a failure
FailureTemplates ==
    {"add_fail_client", "add_fail_embedding", "add_fail_db", "no_client",
     "gen_empty", "busy", "unknown"}

\* C7: a reply that reports a failure is a fixed text: no exception text and no
\* detail from the provider is formatted into it.
C7_NoDiagnosticInReply ==
    \A p \in Workers :
        (pc[p] = "done" /\ out[p].reply.tmpl \in FailureTemplates) => out[p].reply.arg = <<>>

\* C8: every id given to a new row is larger than every id given before, a
\* reset included.
C8_IdsNeverReused ==
    [][\A p \in Workers :
          /\ Len(pending'[p]) > Len(pending[p]) => Last(pending'[p]).id > idHigh
          /\ (pc[p] = "dispatch" /\ Len(db'.rows) > Len(db.rows)) => Last(db'.rows).id > idHigh
   ]_vars

\* C9: no entry of initial_knowledge_data is stored more than once.
C9_SeededOnce ==
    \A i \in 1..NumSeeds :
        Cardinality({k \in DOMAIN db.rows : db.rows[k].content = initial_knowledge_data[i]}) <= 1

\* C10: a stored vector whose dimensionality differs from the query's counts
\* as infinitely distant: confidence is high only through a row of matching
\* dimensionality, and when such a row exists the first result is one.
C10_MismatchNeverMatches ==
    \A p \in Workers :
        (pc[p] = "generate" /\ truthy(out[p].qemb) /\ out[p].seen.table
                            /\ out[p].seen.nrows = Len(db.rows)) =>
            LET q == out[p].qemb.values
                matching == {i \in DOMAIN db.rows : Len(rowVector(db.rows[i])) = Len(q)}
                dist(i) == cosine_distance(q, rowVector(db.rows[i]))
            IN  /\ out[p].high => \E i \in matching : dist(i) < RAG_CONFIDENCE_THRESHOLD
                /\ matching # {} =>
                      \E i \in matching :
                          /\ out[p].results[1].content = db.rows[i].content
                          /\ out[p].results[1].distance = dist(i)

====
